---- MODULE Spec2Model ----
(***************************************************************************)
(* Platform-aware file explorer                                            *)
(* (backend/examples/platform_file_explorer/main.py).                      *)
(*                                                                         *)
(* Two threads: the daemon reader thread started by setup_ipc, which       *)
(* parses stdin lines and posts handle_command with GLib.idle_add, and the *)
(* GTK main thread, which runs __init__, then the main loop that runs idle *)
(* callbacks and the signal handlers of the widgets.                       *)
(*                                                                         *)
(* Strings are sequences of code points, paths are sequences of path       *)
(* components (the root directory "/" is the empty sequence), base64 text  *)
(* is a sequence of alphabet indices 0..63, with 64 for the pad "=".       *)
(***************************************************************************)
EXTENDS Integers, Sequences, FiniteSets, TLC

\* ---------------------------------------------------------------- bounds
MaxLines == 2      \* lines the platform writes to stdin
MaxQueue == 2      \* idle callbacks pending at once
MaxBytes == 1      \* length of an uploaded byte string

\* ------------------------------------------------------------ Python None
None == << -1 >>           \* a missing string (dict.get returns None)
NonePath == << None >>     \* a missing path (get_selected_file returns None)

Truthy(s) == s # None /\ s # << >>

\* ------------------------------------------------------------------ names
NameA == << 97 >>            \* "a"
NameB == << 66 >>            \* "B"
NameD == << 100 >>           \* "d"
NameF == << 102 >>           \* "f"
NameH == << 104 >>           \* "h"
NameDotC == << 46, 99 >>     \* ".c"
NameX == << 120 >>           \* "x"

Root == << >>                \* "/"
Home == << NameH >>          \* os.path.expanduser("~")

\* ------------------------------------------------------------- os.path
join(path, name) == Append(path, name)

dirname(path) == IF path = Root THEN Root ELSE SubSeq(path, 1, Len(path) - 1)

basename(path) == IF path = Root THEN << >> ELSE path[Len(path)]

\* --------------------------------------------------------- the filesystem
\* A filesystem is a function from the existing paths to nodes.
\* A node is a directory or a regular file; a directory of mode 000 can be
\* neither listed nor written into.
DirNode == [isdir |-> TRUE, content |-> << >>, locked |-> FALSE]
LockedDirNode == [isdir |-> TRUE, content |-> << >>, locked |-> TRUE]
FileNode(bytes) == [isdir |-> FALSE, content |-> bytes, locked |-> FALSE]

isdir(f, p) == p \in DOMAIN f /\ f[p].isdir

isfile(f, p) == p \in DOMAIN f /\ ~f[p].isdir

\* os.listdir(p) and open(.., 'wb') in p raise PermissionError
denied(f, p) == p \in DOMAIN f /\ f[p].locked

listdir(f, p) == { q[Len(q)] : q \in { r \in DOMAIN f : r # Root /\ dirname(r) = p } }

WriteNode(f, p, node) == [q \in DOMAIN f \cup {p} |-> IF q = p THEN node ELSE f[q]]

RemoveNode(f, p) == [q \in DOMAIN f \ {p} |-> f[q]]

\* ------------------------------------------------------- list.sort (str)
RECURSIVE LexLess(_, _)
LexLess(a, b) ==
    IF a = << >> THEN b # << >>
    ELSE IF b = << >> THEN FALSE
    ELSE IF a[1] # b[1] THEN a[1] < b[1]
    ELSE LexLess(Tail(a), Tail(b))

\* as sort, but upper and lower case letters compare equal (str.lower key)
lower(name) == [i \in 1..Len(name) |->
                  IF name[i] \in 65..90 THEN name[i] + 32 ELSE name[i]]

RECURSIVE sort_casefold(_)
sort_casefold(S) ==
    IF S = {} THEN << >>
    ELSE LET m == CHOOSE x \in S :
                    \A y \in S \ {x} : LexLess(lower(x), lower(y)) \/ lower(x) = lower(y)
         IN  << m >> \o sort_casefold(S \ {m})

RECURSIVE sort(_)
sort(S) ==
    IF S = {} THEN << >>
    ELSE LET m == CHOOSE x \in S : \A y \in S \ {x} : LexLess(x, y)
         IN  << m >> \o sort(S \ {m})

\* ------------------------------------------------------------- base64
Sextets(bytes) ==
    \* the alphabet indices of one group of 1, 2 or 3 bytes, padded to 4
    LET n  == Len(bytes)
        b1 == bytes[1]
        b2 == IF n >= 2 THEN bytes[2] ELSE 0
        b3 == IF n >= 3 THEN bytes[3] ELSE 0
        s1 == b1 \div 4
        s2 == (b1 % 4) * 16 + (b2 \div 16)
        s3 == (b2 % 16) * 4 + (b3 \div 64)
        s4 == b3 % 64
    IN  IF n = 1 THEN << s1, s2, 64, 64 >>
        ELSE IF n = 2 THEN << s1, s2, s3, 64 >>
        ELSE << s1, s2, s3, s4 >>

RECURSIVE b64encode(_)
b64encode(bytes) ==
    IF bytes = << >> THEN << >>
    ELSE IF Len(bytes) <= 3 THEN Sextets(bytes)
    ELSE Sextets(SubSeq(bytes, 1, 3)) \o b64encode(SubSeq(bytes, 4, Len(bytes)))

\* binascii.a2b_base64, not strict: characters outside the alphabet are
\* skipped, a complete pad sequence ends the input, and a group left
\* incomplete at the end raises binascii.Error.
RECURSIVE a2b(_, _, _, _, _)
a2b(s, quad, left, pads, acc) ==
    IF s = << >> THEN [ok |-> quad = 0, bytes |-> acc]
    ELSE LET c == Head(s) IN
         IF c = 64 THEN
              IF quad >= 2 /\ quad + pads + 1 >= 4
              THEN [ok |-> TRUE, bytes |-> acc]
              ELSE a2b(Tail(s), quad, left, IF quad >= 2 THEN pads + 1 ELSE pads, acc)
         ELSE IF c \notin 0..63 THEN a2b(Tail(s), quad, left, pads, acc)
         ELSE IF quad = 0 THEN a2b(Tail(s), 1, c, 0, acc)
         ELSE IF quad = 1 THEN
              a2b(Tail(s), 2, c % 16, 0, Append(acc, left * 4 + (c \div 16)))
         ELSE IF quad = 2 THEN
              a2b(Tail(s), 3, c % 4, 0, Append(acc, left * 16 + (c \div 4)))
         ELSE a2b(Tail(s), 0, 0, 0, Append(acc, left * 64 + c))

b64decode(data) == a2b(data, 0, 0, 0, << >>)

\* ------------------------------------------------------------- messages
StateMsg(path, selected, actions) ==
    [type |-> "state", path |-> path, selected |-> selected, actions |-> actions]

UploadComplete(filename) == [type |-> "upload_complete", filename |-> filename]

DownloadData(filename, data) ==
    [type |-> "download_data", filename |-> filename, data |-> data]

DeleteComplete == [type |-> "delete_complete"]

\* str(e) of the exception: its kind and the path it names
Error(exc, path) == [type |-> "error", message |-> [exc |-> exc, path |-> path]]

NoState == [type |-> "none"]

\* ------------------------------------------------------------- the model
\* The widgets that hold the directory model: current_path, the rows of
\* file_store and the row selected in file_view (0: no row).
Model(path, store, sel) ==
    [current_path |-> path, file_store |-> store, selection |-> sel]

format_size(size) ==
    \* tenths of the unit; every size of the model is below 1024
    IF size < 1024 THEN [tenths |-> size * 10, unit |-> "B"]
    ELSE IF size \div 1024 < 1024
         THEN [tenths |-> (size * 10) \div 1024, unit |-> "KB"]
    ELSE [tenths |-> (size * 10) \div (1024 * 1024), unit |-> "MB"]

Row(f, path, entry) ==
    LET full_path == join(path, entry)
        is_dir    == isdir(f, full_path)
    IN  [icon      |-> IF is_dir THEN "folder" ELSE "text-x-generic",
         name      |-> entry,
         size      |-> IF is_dir THEN [tenths |-> 0, unit |-> ""]
                       ELSE format_size(Len(f[full_path].content)),
         full_path |-> full_path]

startswith_dot(entry) == entry # << >> /\ entry[1] = 46

\* as file_store_clear, but the selection of file_view survives the clear
file_store_clear_keeps_cursor(m) == Model(m.current_path, << >>, m.selection)

file_store_clear(m) == Model(m.current_path, << >>, 0)

\* as load_directory, but the cursor is put back on its row after the reload
load_directory_reselect(f, path, m) ==
    IF ~isdir(f, path) THEN m
    ELSE LET entries == sort(listdir(f, path))
             shown   == SelectSeq(entries, LAMBDA e : ~startswith_dot(e))
             rows    == [i \in 1..Len(shown) |-> Row(f, path, shown[i])]
         IN  Model(path, rows, IF m.selection <= Len(rows) THEN m.selection ELSE 0)

load_directory(f, path, m) ==
    IF ~isdir(f, path) THEN m
    ELSE LET cleared == file_store_clear(Model(path, m.file_store, m.selection))
             entries == sort(listdir(f, path))
             shown   == SelectSeq(entries, LAMBDA e : ~startswith_dot(e))
             rows    == [i \in 1..Len(shown) |-> Row(f, path, shown[i])]
         IN  IF denied(f, path)
             THEN cleared        \* os.listdir raises: printed to stderr
             ELSE Model(path, cleared.file_store \o rows, cleared.selection)

get_selected_file(m) ==
    \* selection.get_selected(): the iter of the selected row, if there is one
    IF m.selection \in DOMAIN m.file_store
    THEN m.file_store[m.selection].full_path
    ELSE NonePath

\* as get_available_actions, but a directory is offered for download too
get_available_actions_any(f, selected) ==
    IF selected # NonePath /\ (isfile(f, selected) \/ isdir(f, selected))
    THEN << "upload", "download", "delete" >>
    ELSE << "upload" >>

get_available_actions(f, selected) ==
    IF selected # NonePath /\ isfile(f, selected)
    THEN << "upload", "download", "delete" >>
    ELSE IF selected # NonePath /\ isdir(f, selected)
    THEN << "upload", "delete" >>
    ELSE << "upload" >>

send_state(f, m) ==
    LET selected == get_selected_file(m)
    IN  StateMsg(m.current_path, selected, get_available_actions(f, selected))

\* ------------------------------------------------------ command handlers
\* A handler maps the filesystem and the model to the filesystem and model
\* it leaves and the messages it writes to stdout, in order.
Result(f, m, msgs, loaded) == [fs |-> f, m |-> m, sent |-> msgs, loaded |-> loaded]

\* as handle_upload, but the directory is not reloaded after the write
handle_upload_no_reload(f, m, command) ==
    LET filepath == join(m.current_path, command.filename)
        decoded  == b64decode(command.data)
    IN  IF Truthy(command.filename) /\ Truthy(command.data)
        THEN IF isdir(f, filepath) \/ denied(f, m.current_path)
             THEN Result(f, m, << Error("OSError", filepath) >>, FALSE)
             ELSE IF ~decoded.ok
             THEN Result(WriteNode(f, filepath, FileNode(<< >>)), m,
                         << Error("binascii.Error", NonePath) >>, FALSE)
             ELSE Result(WriteNode(f, filepath, FileNode(decoded.bytes)), m,
                         << UploadComplete(command.filename) >>, FALSE)
        ELSE Result(f, m, << >>, FALSE)

handle_upload(f, m, command) ==
    LET filename == command.filename
        data     == command.data
        filepath == join(m.current_path, filename)
        opened   == WriteNode(f, filepath, FileNode(<< >>))     \* open(.., 'wb')
        decoded  == b64decode(data)
        written  == WriteNode(f, filepath, FileNode(decoded.bytes))
    IN  IF Truthy(filename) /\ Truthy(data)
        THEN IF isdir(f, filepath)
             THEN Result(f, m, << Error("IsADirectoryError", filepath) >>, FALSE)
             ELSE IF ~isdir(f, m.current_path)
             THEN Result(f, m, << Error("FileNotFoundError", filepath) >>, FALSE)
             ELSE IF denied(f, m.current_path)
             THEN Result(f, m, << Error("PermissionError", filepath) >>, FALSE)
             ELSE IF ~decoded.ok
             THEN Result(opened, m, << Error("binascii.Error", NonePath) >>, FALSE)
             ELSE Result(written, load_directory(written, m.current_path, m),
                         << UploadComplete(filename) >>, TRUE)
        ELSE Result(f, m, << >>, FALSE)

\* as handle_download_request, but a selection that is no file is reported
handle_download_request_reports(f, m) ==
    LET selected == IF m.selection \in DOMAIN m.file_store
                    THEN m.file_store[m.selection].full_path ELSE NonePath
    IN  IF selected # NonePath /\ isfile(f, selected)
        THEN [fs |-> f, m |-> m, loaded |-> FALSE,
              sent |-> << DownloadData(basename(selected),
                                       b64encode(f[selected].content)) >>]
        ELSE [fs |-> f, m |-> m, loaded |-> FALSE,
              sent |-> << Error("not a file", selected) >>]

handle_download_request(f, m) ==
    LET selected == get_selected_file(m)
    IN  IF selected # NonePath /\ isfile(f, selected)
        THEN Result(f, m, << DownloadData(basename(selected),
                                          b64encode(f[selected].content)) >>, FALSE)
        ELSE Result(f, m, << >>, FALSE)

\* as handle_delete, but only regular files are removed
handle_delete_files_only(f, m) ==
    LET selected == IF m.selection \in DOMAIN m.file_store
                    THEN m.file_store[m.selection].full_path ELSE NonePath
        removed  == IF isfile(f, selected) THEN RemoveNode(f, selected) ELSE f
    IN  IF selected # NonePath
        THEN [fs |-> removed, m |-> load_directory(removed, m.current_path, m),
              sent |-> << DeleteComplete >>, loaded |-> TRUE]
        ELSE [fs |-> f, m |-> m, sent |-> << >>, loaded |-> FALSE]

\* as handle_delete, but a directory is removed with all that is in it
handle_delete_recursive(f, m) ==
    LET selected == IF m.selection \in DOMAIN m.file_store
                    THEN m.file_store[m.selection].full_path ELSE NonePath
        removed  == [q \in { r \in DOMAIN f :
                               Len(r) < Len(selected)
                                 \/ SubSeq(r, 1, Len(selected)) # selected } |-> f[q]]
    IN  IF selected # NonePath
        THEN [fs |-> removed, m |-> load_directory(removed, m.current_path, m),
              sent |-> << DeleteComplete >>, loaded |-> TRUE]
        ELSE [fs |-> f, m |-> m, sent |-> << >>, loaded |-> FALSE]

handle_delete(f, m) ==
    LET selected == get_selected_file(m)
        removed  == IF isfile(f, selected) \/ isdir(f, selected)
                    THEN RemoveNode(f, selected) ELSE f
    IN  IF selected # NonePath
        THEN IF ~isfile(f, selected) /\ isdir(f, selected)
                /\ listdir(f, selected) # {}
             THEN Result(f, m, << Error("OSError: Directory not empty", selected) >>,
                         FALSE)
             ELSE Result(removed, load_directory(removed, m.current_path, m),
                         << DeleteComplete >>, isdir(removed, m.current_path))
        ELSE Result(f, m, << >>, FALSE)

handle_command(f, m, command) ==
    LET cmd_type == command.type
    IN  IF cmd_type = "upload" THEN handle_upload(f, m, command)
        ELSE IF cmd_type = "download_request" THEN handle_download_request(f, m)
        ELSE IF cmd_type = "delete" THEN handle_delete(f, m)
        ELSE Result(f, m, << >>, FALSE)

\* ------------------------------------------------------------- inputs
ByteVals == {104}

RECURSIVE SeqsUpTo(_, _)
SeqsUpTo(S, n) ==
    IF n = 0 THEN {<< >>}
    ELSE LET shorter == SeqsUpTo(S, n - 1)
         IN  shorter \cup { Append(s, x) : s \in shorter, x \in S }

ByteStrings == SeqsUpTo(ByteVals, MaxBytes)

BadData == << 26, 6 >>       \* "aG": a group left incomplete

Command(type, filename, data) == [type |-> type, filename |-> filename, data |-> data]

NoCommand == Command("none", None, None)

Datas == {BadData} \cup { b64encode(b) : b \in ByteStrings }

\* the commands of the platform: uploads of "a" with every data, of the
\* hidden ".c", with a field missing, and the commands without fields
Commands ==
    { Command("upload", NameA, d) : d \in Datas }
        \cup { Command("upload", NameDotC, b64encode(<< 104 >>)),
               Command("upload", None, b64encode(<< 104 >>)),
               Command("upload", NameA, None) }
        \cup { Command(t, None, None) : t \in {"download_request", "delete", "ping"} }

\* a line of stdin: the JSON object it parses to, or a line json.loads rejects
Line(json, obj) == [json |-> json, obj |-> obj]

Lines == { Line(TRUE, c) : c \in Commands } \cup { Line(FALSE, NoCommand) }

\* the text the user types in the path bar
PathTexts == {Home, join(Home, NameD), join(Home, NameB)}

\* the home directory at start: /h/B, /h/.c and the directory /h/d with /h/d/f
InitFilesystem ==
    (Root :> DirNode) @@ (Home :> DirNode)
        @@ (join(Home, NameD) :> DirNode)
        @@ (join(Home, NameB) :> FileNode(<< 104, 105 >>))
        @@ (join(Home, NameDotC) :> FileNode(<< >>))
        @@ (join(join(Home, NameD), NameF) :> FileNode(<< 105 >>))

\* ------------------------------------------------------------- state
VARIABLES
    fs,            \* the filesystem
    current_path,  \* self.current_path
    file_store,    \* the rows of self.file_store
    selection,     \* the row selected in self.file_view, 0 for none
    pc,            \* where the main thread is
    reader,        \* the reader thread: "not_started", "reading"
    lines_read,    \* lines of stdin consumed
    idle,          \* callbacks posted with GLib.idle_add, oldest first
    active,        \* invocations of handle_command in progress
    sent,          \* what the latest step wrote to stdout
    last_state,    \* the latest state message written to stdout
    last_op,       \* the latest step: handler, its command, whether it loaded
    arrivals       \* the parsed commands not yet handled, in order of arrival

vars == << fs, current_path, file_store, selection, pc, reader, lines_read,
           idle, active, sent, last_state, last_op, arrivals >>

model == Model(current_path, file_store, selection)

Op(op, cmd, loaded) == [op |-> op, cmd |-> cmd, loaded |-> loaded]

NewLastState(msgs, old) ==
    LET idx == { i \in 1..Len(msgs) : msgs[i].type = "state" }
    IN  IF idx = {} THEN old ELSE msgs[CHOOSE i \in idx : \A j \in idx : j <= i]

\* the main thread applies a handler's result
Apply(r, op) ==
    /\ fs' = r.fs
    /\ current_path' = r.m.current_path
    /\ file_store' = r.m.file_store
    /\ selection' = r.m.selection
    /\ sent' = r.sent
    /\ last_state' = NewLastState(r.sent, last_state)
    /\ last_op' = op

RemoveFirst(seq, x) ==
    LET idx == { i \in 1..Len(seq) : seq[i] = x }
        k   == CHOOSE i \in idx : \A j \in idx : i <= j
    IN  IF idx = {} THEN seq
        ELSE SubSeq(seq, 1, k - 1) \o SubSeq(seq, k + 1, Len(seq))

\* as MainIdle, but callbacks are run while __init__ has not returned
MainIdle_during_init == pc # "setup_ipc" /\ \A a \in active : a.thread # "main"

MainIdle == pc = "main" /\ \A a \in active : a.thread # "main"

Init ==
    /\ fs = InitFilesystem
    /\ current_path = Home
    /\ file_store = << >>
    /\ selection = 0
    /\ pc = "setup_ipc"
    /\ reader = "not_started"
    /\ lines_read = 0
    /\ idle = << >>
    /\ active = {}
    /\ sent = << >>
    /\ last_state = NoState
    /\ last_op = Op("init", NoCommand, FALSE)
    /\ arrivals = << >>

\* ------------------------------------------------------------- __init__
setup_ipc ==
    /\ pc = "setup_ipc"
    /\ pc' = "build_ui"
    /\ reader' = "reading"
    /\ sent' = << >>
    /\ last_op' = Op("setup_ipc", NoCommand, FALSE)
    /\ UNCHANGED << fs, current_path, file_store, selection, lines_read, idle,
                    active, last_state, arrivals >>

build_ui ==
    /\ pc = "build_ui"
    /\ pc' = "load_directory"
    /\ file_store' = << >>
    /\ selection' = 0
    /\ sent' = << >>
    /\ last_op' = Op("build_ui", NoCommand, FALSE)
    /\ UNCHANGED << fs, current_path, reader, lines_read, idle, active, last_state,
                    arrivals >>

init_load_directory ==
    /\ pc = "load_directory"
    /\ pc' = "send_state"
    /\ Apply(Result(fs, load_directory(fs, current_path, model), << >>,
                    isdir(fs, current_path)),
             Op("load_directory", NoCommand, isdir(fs, current_path)))
    /\ UNCHANGED << reader, lines_read, idle, active, arrivals >>

init_send_state ==
    /\ pc = "send_state"
    /\ pc' = "main"
    /\ Apply(Result(fs, model, << send_state(fs, model) >>, FALSE),
             Op("send_state", NoCommand, FALSE))
    /\ UNCHANGED << reader, lines_read, idle, active, arrivals >>

\* ------------------------------------------------------------- the reader
\* as idle_add, but the callback is run at once, on the calling thread
idle_add_direct(command) ==
    /\ idle' = idle
    /\ active' = active \cup {[thread |-> "reader", cmd |-> command]}

\* as idle_add, but the newest callback is run first
idle_add_front(command) ==
    /\ idle' = << command >> \o idle
    /\ active' = active

\* GLib.idle_add(self.handle_command, command)
idle_add(command) ==
    /\ idle' = Append(idle, command)
    /\ active' = active

\* as read_stdin, but JSONDecodeError is not caught and ends the thread
read_stdin_uncaught(line) ==
    /\ IF line.json THEN idle_add(line.obj) ELSE UNCHANGED << idle, active >>
    /\ reader' = IF line.json THEN reader ELSE "ended"

read_stdin(line) ==
    /\ IF line.json THEN idle_add(line.obj) ELSE UNCHANGED << idle, active >>
    /\ reader' = reader

ReadLine ==
    /\ reader = "reading"
    /\ lines_read < MaxLines
    /\ Len(idle) < MaxQueue
    /\ \E line \in Lines :
         /\ read_stdin(line)
         /\ last_op' = Op(IF line.json THEN "read_stdin" ELSE "read_stdin_bad",
                          line.obj, FALSE)
         /\ arrivals' = IF line.json THEN Append(arrivals, line.obj) ELSE arrivals
    /\ lines_read' = lines_read + 1
    /\ sent' = << >>
    /\ UNCHANGED << fs, current_path, file_store, selection, pc, last_state >>

\* ------------------------------------------------------- the main loop
\* the main loop takes the oldest idle callback; it is removed once run
Dispatch ==
    /\ MainIdle
    /\ idle # << >>
    /\ active' = active \cup {[thread |-> "main", cmd |-> Head(idle)]}
    /\ idle' = Tail(idle)
    /\ sent' = << >>
    /\ last_op' = Op("dispatch", Head(idle), FALSE)
    /\ UNCHANGED << fs, current_path, file_store, selection, pc, reader,
                    lines_read, last_state, arrivals >>

HandleCommand ==
    /\ \E a \in active :
         /\ Apply(handle_command(fs, model, a.cmd),
                  Op("handle_command", a.cmd,
                     handle_command(fs, model, a.cmd).loaded))
         /\ active' = active \ {a}
         /\ arrivals' = RemoveFirst(arrivals, a.cmd)
    /\ UNCHANGED << pc, reader, lines_read, idle >>

\* ------------------------------------------------------- signal handlers
\* as on_path_changed, but without the isdir test, as on_up_clicked is
on_path_changed_unchecked(new_path) ==
    LET m == load_directory(fs, new_path, model)
    IN  Result(fs, m, << send_state(fs, m) >>, isdir(fs, new_path))

on_path_changed(new_path) ==
    IF isdir(fs, new_path)
    THEN LET m == load_directory(fs, new_path, model)
         IN  Result(fs, m, << send_state(fs, m) >>, TRUE)
    ELSE Result(fs, model, << >>, FALSE)

on_up_clicked ==
    LET parent == dirname(current_path)
        m      == load_directory(fs, parent, model)
    IN  IF parent # current_path
        THEN Result(fs, m, << send_state(fs, m) >>, isdir(fs, parent))
        ELSE Result(fs, model, << >>, FALSE)

on_file_activated(row) ==
    LET file_path == file_store[row].full_path
        m         == load_directory(fs, file_path, model)
    IN  IF isdir(fs, file_path)
        THEN Result(fs, m, << send_state(fs, m) >>, TRUE)
        ELSE Result(fs, model, << >>, FALSE)

\* cursor-changed: the user has moved the cursor of file_view to a row
on_selection_changed(row) ==
    LET m == Model(current_path, file_store, row)
    IN  Result(fs, m, << send_state(fs, m) >>, FALSE)

PathChanged ==
    /\ MainIdle
    /\ \E text \in PathTexts :
         Apply(on_path_changed(text), Op("on_path_changed", NoCommand,
                                         on_path_changed(text).loaded))
    /\ UNCHANGED << pc, reader, lines_read, idle, active, arrivals >>

UpClicked ==
    /\ MainIdle
    /\ Apply(on_up_clicked, Op("on_up_clicked", NoCommand, on_up_clicked.loaded))
    /\ UNCHANGED << pc, reader, lines_read, idle, active, arrivals >>

FileActivated ==
    /\ MainIdle
    /\ \E row \in 1..Len(file_store) :
         Apply(on_file_activated(row), Op("on_file_activated", NoCommand,
                                          on_file_activated(row).loaded))
    /\ UNCHANGED << pc, reader, lines_read, idle, active, arrivals >>

SelectionChanged ==
    /\ MainIdle
    /\ \E row \in 1..Len(file_store) :
         Apply(on_selection_changed(row), Op("on_selection_changed", NoCommand, FALSE))
    /\ UNCHANGED << pc, reader, lines_read, idle, active, arrivals >>

Next ==
    \/ setup_ipc
    \/ build_ui
    \/ init_load_directory
    \/ init_send_state
    \/ ReadLine
    \/ Dispatch
    \/ HandleCommand
    \/ PathChanged
    \/ UpClicked
    \/ FileActivated
    \/ SelectionChanged

Spec == Init /\ [][Next]_vars

\* The main thread keeps running: __init__ goes on to the main loop, a posted
\* callback is run, and a handler that has started returns.
SpecFair ==
    /\ Spec
    /\ WF_vars(setup_ipc) /\ WF_vars(build_ui)
    /\ WF_vars(init_load_directory) /\ WF_vars(init_send_state)
    /\ WF_vars(Dispatch) /\ WF_vars(HandleCommand)

\* ------------------------------------------- a filesystem that is shared
\* The home directory also holds /h/x, a directory of mode 000, and other
\* processes remove files while the explorer runs.
EnvFilesystem == InitFilesystem @@ (join(Home, NameX) :> LockedDirNode)

InitEnv ==
    /\ fs = EnvFilesystem
    /\ current_path = Home
    /\ file_store = << >>
    /\ selection = 0
    /\ pc = "setup_ipc"
    /\ reader = "not_started"
    /\ lines_read = 0
    /\ idle = << >>
    /\ active = {}
    /\ sent = << >>
    /\ last_state = NoState
    /\ last_op = Op("init", NoCommand, FALSE)
    /\ arrivals = << >>

ExternalRemove ==
    /\ \E p \in DOMAIN fs :
         /\ isfile(fs, p)
         /\ fs' = RemoveNode(fs, p)
    /\ sent' = << >>
    /\ last_op' = Op("external_remove", NoCommand, FALSE)
    /\ UNCHANGED << current_path, file_store, selection, pc, reader, lines_read,
                    idle, active, last_state, arrivals >>

NextEnv == Next \/ ExternalRemove

SpecEnv == InitEnv /\ [][NextEnv]_vars

\* ============================================================ properties
HasType(msgs, t) == \E i \in 1..Len(msgs) : msgs[i].type = t

\* the step completes the handling of command c
Handles(c) == \E a \in active : a.cmd = c /\ a \notin active'

Handled(t) == last_op.op = "handle_command" /\ last_op.cmd.type = t

ModelVars == << fs, current_path, file_store, selection >>

\* C1: an upload command whose filename or data field is absent emits an
\* error message and writes no file.
C1_MissingFieldEmitsError ==
    [][\A c \in Commands :
          (Handles(c) /\ c.type = "upload" /\ (c.filename = None \/ c.data = None))
              => (HasType(sent', "error") /\ fs' = fs)]_vars

\* C2: every command that reaches a terminal outcome (it writes a result
\* message) is followed by a state message, as every load, navigateUp and
\* select is; so whenever no handler is running, the path and selected fields
\* of the latest state message are current_path and the selected path.
C2_StateAfterEveryOperation ==
    /\ [][\A c \in Commands :
            (Handles(c) /\ sent' # << >>) => sent'[Len(sent')].type = "state"]_vars
    /\ []((MainIdle /\ last_state # NoState)
            => (/\ last_state.path = current_path
                /\ last_state.selected = get_selected_file(model)))

\* C3: command handlers run on the main thread only, one at a time: the
\* reader only posts commands, and from the dispatch of a command to its
\* completion no other command is dispatched and no other step touches the
\* model, the filesystem or stdout.
C3_HandlersSerialized ==
    /\ [](\A a \in active : a.thread = "main")
    /\ [](Cardinality(active) <= 1)
    /\ [][lines_read' # lines_read
            => (UNCHANGED ModelVars /\ sent' = << >> /\ active' = active)]_vars
    /\ [][(active # {} /\ active \subseteq active')
            => (UNCHANGED ModelVars /\ sent' = << >> /\ active' = active)]_vars

C3_Witness ==
    /\ active # {}
    /\ idle # << >>
    /\ last_op.op = "read_stdin"

\* C4: uploading any byte string B (the empty one too) under any filename F
\* leaves F in the current directory as a listed file of content B, and a
\* download_request with a file selected answers with one download_data
\* message that carries the file's name and base64 text that decodes to its
\* content: upload B as F, select F, download_request returns F and B.
C4_RoundTrip ==
    [][\A c \in Commands :
          /\ (Handles(c) /\ c.type = "upload" /\ c.filename # None
                /\ c.data \in { b64encode(b) : b \in ByteStrings })
               => LET p == join(current_path, c.filename)
                  IN  /\ isfile(fs', p)
                      /\ b64encode(fs'[p].content) = c.data
                      /\ \E i \in 1..Len(file_store') : file_store'[i].full_path = p
          /\ (Handles(c) /\ c.type = "download_request"
                /\ isfile(fs, get_selected_file(model)))
               => /\ Len(sent') = 1
                  /\ sent'[1].type = "download_data"
                  /\ sent'[1].filename = basename(get_selected_file(model))
                  /\ b64decode(sent'[1].data)
                       = [ok |-> TRUE, bytes |-> fs[get_selected_file(model)].content]
       ]_vars

\* C5: a delete command with a non-empty directory selected removes nothing,
\* leaves the listing, the current path and the selection as they were, and
\* writes one error message that names the directory, and no delete_complete.
C5_DeleteNonEmptyDirectory ==
    [][\A c \in Commands :
          (/\ Handles(c) /\ c.type = "delete"
           /\ isdir(fs, get_selected_file(model))
           /\ listdir(fs, get_selected_file(model)) # {})
              => /\ UNCHANGED ModelVars
                 /\ Len(sent') = 1
                 /\ sent'[1].type = "error"
                 /\ sent'[1].message.path = get_selected_file(model)]_vars

C5_Witness ==
    /\ Handled("delete")
    /\ isdir(fs, get_selected_file(model))
    /\ listdir(fs, get_selected_file(model)) # {}
    /\ HasType(sent, "error")

\* C6: the selection is either unset or a row of the listing now loaded.
C6_SelectionInListing ==
    \/ selection = 0
    \/ /\ selection \in 1..Len(file_store)
       /\ get_selected_file(model) \in { file_store[i].full_path : i \in 1..Len(file_store) }
       /\ dirname(get_selected_file(model)) = current_path

C6_Witness ==
    /\ last_op.op = "on_selection_changed"
    /\ selection # 0
    /\ fs # InitFilesystem
    /\ current_path # Home

\* C7: after a step that loads a directory, and after every step that changes
\* current_path, nothing is selected.
C7_LoadClearsSelection ==
    /\ [](last_op.loaded => selection = 0)
    /\ [][current_path' # current_path => selection' = 0]_vars

C7_Witness ==
    /\ Handled("upload")
    /\ last_op.loaded
    /\ last_state.selected # NonePath

C9_DroppedInput ==
    [][/\ last_op'.op = "read_stdin_bad"
            => (/\ UNCHANGED ModelVars
                /\ UNCHANGED << idle, active, pc, last_state >>
                /\ sent' = << >>
                /\ reader' = "reading")
       /\ \A c \in Commands :
            (Handles(c) /\ c.type \notin {"upload", "download_request", "delete"})
               => (/\ UNCHANGED ModelVars
                   /\ UNCHANGED << idle, reader, pc, last_state >>
                   /\ sent' = << >>)]_vars

C9_Witness ==
    /\ Handled("ping")
    /\ selection # 0
    /\ idle # << >>

\* C10: a download_request with nothing selected, or with a selection that is
\* not a regular file, writes no message; and no download_request changes the
\* model or the filesystem.
C10_DownloadFrame ==
    [][\A c \in Commands :
          (Handles(c) /\ c.type = "download_request")
             => /\ UNCHANGED ModelVars
                /\ ~isfile(fs, get_selected_file(model)) => sent' = << >>]_vars

C10_Witness ==
    /\ Handled("download_request")
    /\ isdir(fs, get_selected_file(model))
    /\ sent = << >>

\* C11: every filesystem failure is reported with an error message: a write
\* that fails in an upload, a removal that fails in a delete, and a directory
\* load whose listing fails.
C11_FailuresSurfaced ==
    [][/\ \A c \in Commands :
            /\ (Handles(c) /\ c.type = "upload" /\ Truthy(c.filename)
                  /\ Truthy(c.data) /\ denied(fs, current_path))
                 => HasType(sent', "error")
            /\ (Handles(c) /\ c.type = "delete"
                  /\ isdir(fs, get_selected_file(model))
                  /\ listdir(fs, get_selected_file(model)) # {})
                 => HasType(sent', "error")
       /\ (last_op'.loaded /\ denied(fs', current_path'))
            => HasType(sent', "error")]_vars

\* an upload command that has both fields and whose data decodes
GoodUpload(c) ==
    /\ c.type = "upload"
    /\ Truthy(c.filename)
    /\ Truthy(c.data)
    /\ b64decode(c.data).ok

Listed(store, p) == \E i \in 1..Len(store) : store[i].full_path = p

C13_DeleteRemoves ==
    [][\A c \in Commands :
          (Handles(c) /\ c.type = "delete")
             => LET selected == get_selected_file(model)
                IN  /\ selected = NonePath
                         => (UNCHANGED ModelVars /\ sent' = << >>)
                    /\ (\/ isfile(fs, selected)
                        \/ isdir(fs, selected) /\ listdir(fs, selected) = {})
                         => /\ fs' = RemoveNode(fs, selected)
                            /\ ~Listed(file_store', selected)
                            /\ file_store'
                                 = load_directory(fs', current_path, model).file_store
                            /\ selection' = 0
                            /\ current_path' = current_path
                            /\ sent' = << DeleteComplete >>]_vars

C13_Witness ==
    /\ Handled("delete")
    /\ sent = << DeleteComplete >>
    /\ join(Home, NameD) \notin DOMAIN fs
    /\ current_path = Home

Names(store) == [i \in 1..Len(store) |-> store[i].name]

\* C14: the listing is sorted by name in code point order and holds no name
\* that starts with a dot; after a load it holds exactly the other names of
\* the directory, and loading the same directory again gives the same rows.
C14_ListingSorted ==
    /\ \A i \in 1..Len(file_store) : ~startswith_dot(file_store[i].name)
    /\ \A i, j \in 1..Len(file_store) :
          i < j => LexLess(file_store[i].name, file_store[j].name)
    /\ last_op.loaded
          => /\ { file_store[i].name : i \in 1..Len(file_store) }
                  = { n \in listdir(fs, current_path) : ~startswith_dot(n) }
             /\ load_directory(fs, current_path, model).file_store = file_store

C14_Witness ==
    /\ last_op.loaded
    /\ Names(file_store) = << NameB, NameA, NameD >>
    /\ join(current_path, NameDotC) \in DOMAIN fs

\* C15: no command ends the main loop; every parsed command is handled in
\* the end; an upload that has both fields writes exactly one message, an
\* upload_complete or an error, and so does a delete with a selection, a
\* delete_complete or an error.
C15_CommandsComplete ==
    /\ [][pc = "main" => pc' = "main"]_vars
    /\ (arrivals # << >>) ~> (arrivals = << >>)
    /\ [][\A c \in Commands :
            /\ (Handles(c) /\ c.type = "upload" /\ c.filename # None /\ c.data # None)
                 => /\ Len(sent') = 1
                    /\ sent'[1].type \in {"upload_complete", "error"}
            /\ (Handles(c) /\ c.type = "delete" /\ get_selected_file(model) # NonePath)
                 => /\ Len(sent') = 1
                    /\ sent'[1].type \in {"delete_complete", "error"}]_vars

\* C16: a path typed in the path bar that is not a directory changes
\* neither current_path, the listing, the selection nor the filesystem, and
\* no state message is written.
C16_NavigateToNonDirectory ==
    [][(last_op'.op = "on_path_changed" /\ ~last_op'.loaded)
          => /\ UNCHANGED ModelVars
             /\ sent' = << >>
             /\ last_state' = last_state]_vars

C16_Witness ==
    /\ last_op.op = "on_path_changed"
    /\ ~last_op.loaded
    /\ selection # 0
    /\ sent = << >>

\* C17: until __init__ has sent the state of the home directory, with nothing
\* selected and upload as the only action, nothing is written to stdout and
\* no command is dispatched or handled, whatever the reader has posted.
C17_InitialStateFirst ==
    /\ [](pc # "main"
            => /\ sent = << >>
               /\ last_state = NoState
               /\ active = {}
               /\ Len(idle) = Len(arrivals)
               /\ fs = InitFilesystem)
    /\ [][(pc # "main" /\ pc' = "main")
            => sent' = << StateMsg(Home, NonePath, << "upload" >>) >>]_vars

C17_Witness ==
    /\ pc = "main"
    /\ last_op.op = "send_state"
    /\ Len(idle) = 2
    /\ sent = << StateMsg(Home, NonePath, << "upload" >>) >>

\* C18: commands are dispatched and handled in the order in which they were
\* read, and what a command writes to stdout it writes in the step that
\* handles it: the messages of an earlier command precede those of a later.
C18_ResultsInArrivalOrder ==
    [][/\ \A c \in Commands : Handles(c) => c = Head(arrivals)
       /\ (active' # active /\ active' # {})
            => \A a \in active' : a.cmd = Head(arrivals)
       /\ \A c \in Commands :
            Handles(c) => sent' = handle_command(fs, model, c).sent
       /\ (\E i \in 1..Len(sent') : sent'[i].type # "state")
            => \E c \in Commands : Handles(c)]_vars

C18_Witness ==
    /\ last_op.op = "handle_command"
    /\ sent # << >>
    /\ idle # << >>
    /\ Head(idle) # last_op.cmd
    /\ Head(idle).type = "download_request"
    /\ isfile(fs, get_selected_file(model))

\* C19: an upload that ends in an error message leaves the filesystem as it
\* was: no file is created or truncated, and the listing is the same.
C19_FailedUploadLeavesFilesystem ==
    [][\A c \in Commands :
         (Handles(c) /\ c.type = "upload" /\ HasType(sent', "error"))
           => (fs' = fs /\ file_store' = file_store)]_vars

\* C20: delete_complete is written only when the delete command removed the
\* selected entry: the entry existed before the command and is gone after it.
C20_DeleteCompleteOnlyAfterRemoval ==
    [][\A c \in Commands :
         (Handles(c) /\ c.type = "delete" /\ HasType(sent', "delete_complete"))
           => LET selected == get_selected_file(model)
              IN  /\ selected \in DOMAIN fs
                  /\ selected \notin DOMAIN fs']_vars

====
